---- MODULE Spec2Model ----
(***************************************************************************)
(* A model of barrels/LogMonkey/parse_log_file.py: the line matcher        *)
(* (LOG_LINE_PATTERN), the line parser (parse_log_line), the filter        *)
(* (LogLine.matches_filters), the width globals, the three renderings and  *)
(* main()'s read-everything-then-write control flow.                       *)
(*                                                                         *)
(* Text is a sequence of one-character strings.  Positions are Python's    *)
(* 0-based indices, and str.find's not-found result is -1 as in Python.    *)
(***************************************************************************)
EXTENDS Integers, Sequences, FiniteSets, TLC

\* ------------------------------------------------------------------ text

\* An optional value: Python's None is the empty tuple, a value v is <<v>>.
None == <<>>

Some(v) == <<v>>

Min(S) == CHOOSE x \in S : \A y \in S : x <= y

Max(S) == CHOOSE x \in S : \A y \in S : x >= y

\* Python's str.find(ch, start): the lowest index >= start holding ch, or -1.
Find(s, ch, start) ==
  LET hits == {i \in start..(Len(s) - 1) : s[i + 1] = ch}
  IN  IF hits = {} THEN -1 ELSE Min(hits)

\* Python's clamping of a slice bound: a negative bound counts from the end.
SliceBound(s, i) ==
  IF i < 0 THEN (IF i + Len(s) < 0 THEN 0 ELSE i + Len(s))
  ELSE (IF i > Len(s) THEN Len(s) ELSE i)

\* Python's s[a:b].
Slice(s, a, b) ==
  LET lo == SliceBound(s, a)
      hi == SliceBound(s, b)
  IN  IF lo >= hi THEN <<>> ELSE [k \in 1..(hi - lo) |-> s[lo + k]]

\* Python's s[a:].
SliceFrom(s, a) == Slice(s, a, Len(s))

\* The characters str.strip() removes (string.whitespace).
Whitespace == {" ", "\t", "\n", "\r", "\f"}

\* Python's str.strip().
Strip(s) ==
  LET keep == {i \in 1..Len(s) : s[i] \notin Whitespace}
  IN  IF keep = {} THEN <<>>
      ELSE [k \in 1..(Max(keep) - Min(keep) + 1) |-> s[Min(keep) + k - 1]]

\* Python's `ch in s` for a one-character ch.
Contains(s, ch) == \E i \in 1..Len(s) : s[i] = ch

\* n spaces.
Spaces(n) == [k \in 1..n |-> " "]

\* ------------------------------------------------------- LOG_LINE_PATTERN

Digits == {"0", "1", "2", "3", "4", "5", "6", "7", "8", "9"}

Letters ==
  {"a", "b", "c", "d", "e", "f", "g", "h", "i", "j", "k", "l", "m",
   "n", "o", "p", "q", "r", "s", "t", "u", "v", "w", "x", "y", "z",
   "A", "B", "C", "D", "E", "F", "G", "H", "I", "J", "K", "L", "M",
   "N", "O", "P", "Q", "R", "S", "T", "U", "V", "W", "X", "Y", "Z"}

\* \w of a Python 2 byte-string pattern compiled without flags.
WordChars == Letters \cup Digits \cup {"_"}

\* [0-9: -]
TimestampChars == Digits \cup {":", " ", "-"}

\* The {19} of the pattern.
TimestampLen == 19

\* One item of a pattern: a character set (negated or not) and its repeat
\* range; hi = -1 stands for no upper limit.
Lit(ch) == [chars |-> {ch}, neg |-> FALSE, lo |-> 1, hi |-> 1]

OneOrMore(set) == [chars |-> set, neg |-> FALSE, lo |-> 1, hi |-> -1]

Exactly(set, n) == [chars |-> set, neg |-> FALSE, lo |-> n, hi |-> n]

OneOrMoreNot(set) == [chars |-> set, neg |-> TRUE, lo |-> 1, hi |-> -1]

\* `.*`: any run of characters other than the newline.
AnyRun == [chars |-> {"\n"}, neg |-> TRUE, lo |-> 0, hi |-> -1]

\* The pattern without the space after the colon: [^:]+:.*$
PatternNoSpaceAfterColon ==
  << Lit("("), Lit("l"), Lit("m"), Lit("f"), OneOrMore(Digits), Lit(")"),
     Lit("["), Exactly(TimestampChars, TimestampLen), Lit("]"), Lit(" "),
     Lit("{"), OneOrMore(WordChars), Lit("}"), Lit(" "),
     OneOrMoreNot({":"}), Lit(":"), AnyRun >>

\* The pattern without the tag and its colon: \{\w+\} .*$
PatternNoTagColon ==
  << Lit("("), Lit("l"), Lit("m"), Lit("f"), OneOrMore(Digits), Lit(")"),
     Lit("["), Exactly(TimestampChars, TimestampLen), Lit("]"), Lit(" "),
     Lit("{"), OneOrMore(WordChars), Lit("}"), Lit(" "), AnyRun >>

\* ^\(lmf([0-9])+\)\[[0-9: -]{19}\] \{\w+\} [^:]+: .*$   (the ^ and the $ are
\* in MatchFrom and AtEnd).
LOG_LINE_PATTERN ==
  << Lit("("), Lit("l"), Lit("m"), Lit("f"), OneOrMore(Digits), Lit(")"),
     Lit("["), Exactly(TimestampChars, TimestampLen), Lit("]"), Lit(" "),
     Lit("{"), OneOrMore(WordChars), Lit("}"), Lit(" "),
     OneOrMoreNot({":"}), Lit(":"), Lit(" "), AnyRun >>

\* Whether an item's character set admits ch.
Admits(item, ch) == IF item.neg THEN ch \notin item.chars ELSE ch \in item.chars

\* The longest run the item can take at pos (the greedy choice).
RECURSIVE RunLen(_, _, _, _)
RunLen(item, s, pos, n) ==
  IF pos + n < Len(s) /\ (item.hi = -1 \/ n < item.hi) /\ Admits(item, s[pos + n + 1])
  THEN RunLen(item, s, pos, n + 1)
  ELSE n

\* `$` without re.MULTILINE: the end of the text, or just before a final newline.
AtEnd(s, pos) == pos = Len(s) \/ (pos = Len(s) - 1 /\ s[Len(s)] = "\n")

\* The backtracking matcher: item i onwards matches s from pos.
RECURSIVE MatchFrom(_, _, _, _)
MatchFrom(pat, i, s, pos) ==
  IF i > Len(pat) THEN AtEnd(s, pos)
  ELSE LET run == RunLen(pat[i], s, pos, 0)
       IN  /\ run >= pat[i].lo
           /\ \E c \in pat[i].lo..run : MatchFrom(pat, i + 1, s, pos + c)

\* LOG_LINE_PATTERN.match(line): anchored at position 0.
Match(line) == MatchFrom(LOG_LINE_PATTERN, 1, line, 0)

\* ----------------------------------------------------------- parse_log_line

\* The seven delimiter scans of parse_log_line, in the order it makes them.
ParseScan(line) ==
  LET lparen == Find(line, "(", 0)
      rparen == Find(line, ")", lparen + 1)
      lbrack == Find(line, "[", 0)
      rbrack == Find(line, "]", lbrack + 1)
      lbrace == Find(line, "{", rbrack)
      rbrace == Find(line, "}", lbrace + 1)
      colon  == Find(line, ":", rbrace + 1)
  IN  [lparen |-> lparen, rparen |-> rparen, lbrack |-> lbrack, rbrack |-> rbrack,
       lbrace |-> lbrace, rbrace |-> rbrace, colon |-> colon]

\* parse_log_line(line): the LogLine object.
parse_log_line(line) ==
  LET p == ParseScan(line)
  IN  [rawValue  |-> line,
       logFormat |-> Slice(line, p.lparen + 1, p.rparen),
       timestamp |-> Slice(line, p.lbrack + 1, p.rbrack),
       logLevel  |-> Slice(line, p.lbrace + 1, p.rbrace),
       tag       |-> Strip(Slice(line, p.rbrace + 1, p.colon)),
       message   |-> Strip(SliceFrom(line, p.colon + 1))]

\* ------------------------------------------------------ LogLine methods

\* Python's `x in list`.
InList(x, list) == \E i \in 1..Len(list) : list[i] = x

\* Text with the letters D, I and N in lower case.
Fold(s) ==
  [i \in 1..Len(s) |-> CASE s[i] = "D" -> "d"
                         [] s[i] = "I" -> "i"
                         [] s[i] = "N" -> "n"
                         [] OTHER -> s[i]]

\* matches_filters comparing without regard to case.
matches_filters_folding(entry, logLevel, tagFilter) ==
  IF logLevel # None /\ Fold(logLevel[1]) # Fold(entry.logLevel) THEN FALSE
  ELSE IF tagFilter # None
          /\ ~InList(Fold(entry.tag), [i \in 1..Len(tagFilter[1]) |-> Fold(tagFilter[1][i])])
       THEN FALSE
  ELSE TRUE

\* matches_filters testing the tag list for truth (`if tagFilter and ...`), so
\* that an empty list constrains nothing.
matches_filters_truthy(entry, logLevel, tagFilter) ==
  IF logLevel # None /\ logLevel[1] # entry.logLevel THEN FALSE
  ELSE IF tagFilter # None /\ tagFilter[1] # <<>> /\ ~InList(entry.tag, tagFilter[1])
       THEN FALSE
  ELSE TRUE

\* LogLine.matches_filters(logLevel, tagFilter); each filter is None or Some(v).
matches_filters(entry, logLevel, tagFilter) ==
  IF logLevel # None /\ logLevel[1] # entry.logLevel THEN FALSE
  ELSE IF tagFilter # None /\ ~InList(entry.tag, tagFilter[1]) THEN FALSE
  ELSE TRUE

\* ("{:<" + str(width) + "}").format(s): s left-justified in a field of at
\* least width characters; format never truncates.  (Width 0 is written "<0",
\* a fill flag with no width: no padding, which is what a width of 0 gives.)
LJust(s, width) ==
  IF Len(s) >= width THEN s ELSE s \o Spaces(width - Len(s))

\* to_spaced_string with its two widths exchanged.
to_spaced_string_swapped(entry, logLevelWidth, tagWidth) ==
  <<"(">> \o entry.logFormat \o <<")", "[">> \o entry.timestamp \o <<"]", " ", "{">>
    \o LJust(entry.logLevel, tagWidth) \o <<"}", " ">>
    \o LJust(entry.tag, logLevelWidth) \o <<":", " ">> \o entry.message

\* LogLine.to_spaced_string: LOG_FILE_OUTPUT_FORMAT "({0})[{1}] {{{2}}} {3}: {4}".
to_spaced_string(entry, logLevelWidth, tagWidth) ==
  <<"(">> \o entry.logFormat \o <<")", "[">> \o entry.timestamp \o <<"]", " ", "{">>
    \o LJust(entry.logLevel, logLevelWidth) \o <<"}", " ">>
    \o LJust(entry.tag, tagWidth) \o <<":", " ">> \o entry.message

\* A field of to_csv_string: wrapped in double quotes when it holds a comma.
CsvField(s) == IF Contains(s, ",") THEN <<"\"">> \o s \o <<"\"">> ELSE s

\* LogLine.to_csv_string: CSV_FILE_OUTPUT_FORMAT "{0},{1},{2},{3}".
to_csv_string(entry) ==
  CsvField(entry.timestamp) \o <<",">> \o CsvField(entry.logLevel) \o <<",">>
    \o CsvField(entry.tag) \o <<",">> \o CsvField(entry.message)

\* LogLine.__str__.
Str(entry) == Strip(entry.rawValue)

\* Python's str.rfind(ch): the highest index holding ch, or -1.
RFind(s, ch) ==
  LET hits == {i \in 0..(Len(s) - 1) : s[i + 1] = ch}
  IN  IF hits = {} THEN -1 ELSE Max(hits)

\* os.path.splitext(name)[1]: the text from the last dot on, when that dot lies
\* in the last path component and a character other than a dot precedes it
\* there; otherwise empty.
SplitExt(name) ==
  LET sepIndex == RFind(name, "/")
      dotIndex == RFind(name, ".")
  IN  IF /\ dotIndex > sepIndex
         /\ \E i \in (sepIndex + 1)..(dotIndex - 1) : name[i + 1] # "."
      THEN SliceFrom(name, dotIndex)
      ELSE <<>>

\* os.path.splitext(outputFile.name)[1][1:] == "csv"
IsCsvName(name) == SliceFrom(SplitExt(name), 1) = <<"c", "s", "v">>

\* output_log_line testing the alignment flag before the file's extension.
OutputModeFlagFirst(outputFile, spaceColumns) ==
  IF spaceColumns THEN "aligned"
  ELSE IF outputFile # None /\ IsCsvName(outputFile[1]) THEN "csv"
  ELSE "raw"

\* The branch output_log_line takes; outputFile is None or Some(name).
OutputMode(outputFile, spaceColumns) ==
  IF outputFile # None
  THEN IF IsCsvName(outputFile[1]) THEN "csv"
       ELSE IF spaceColumns THEN "aligned"
       ELSE "raw"
  ELSE IF spaceColumns THEN "aligned"
       ELSE "raw"

\* LogLine.output_log_line: the record written (its line terminator left out),
\* with the branch that wrote it.
output_log_line(entry, outputFile, spaceColumns, levelWidth, tagWidth) ==
  LET mode == OutputMode(outputFile, spaceColumns)
  IN  [mode |-> mode,
       text |-> CASE mode = "csv"     -> to_csv_string(entry)
                  [] mode = "aligned" -> to_spaced_string(entry, levelWidth, tagWidth)
                  [] OTHER            -> Str(entry)]

\* arg.split(","): Python's str.split with a separator never returns an empty
\* list; the empty text splits to [""].
RECURSIVE Split(_)
Split(s) ==
  LET i == Find(s, ",", 0)
  IN  IF i = -1 THEN <<s>> ELSE <<Slice(s, 0, i)>> \o Split(SliceFrom(s, i + 1))

\* --------------------------------------------------------------- inputs

\* A 19-character timestamp.
Stamp ==
  <<"2", "0", "2", "0", "-", "0", "1", "-", "0", "1", " ",
    "0", "0", ":", "0", "0", ":", "0", "0">>

\* "(lmf1)[2020-01-01 00:00:00] "
LinePrefix == <<"(", "l", "m", "f", "1", ")", "[">> \o Stamp \o <<"]", " ">>

\* "(lmf1)[2020-01-01 00:00:00] {D} net: up\n"
LineNet ==
  LinePrefix \o <<"{", "D", "}", " ", "n", "e", "t", ":", " ", "u", "p", "\n">>

\* "(lmf1)[2020-01-01 00:00:00] {INFO} io: a,b\n"
LineIo ==
  LinePrefix \o <<"{", "I", "N", "F", "O", "}", " ", "i", "o", ":", " ", "a", ",", "b", "\n">>

\* "(lmf1)[2020-01-01 00:00:00] {D} gps fix: ok\n"
LineGps ==
  LinePrefix \o <<"{", "D", "}", " ", "g", "p", "s", " ", "f", "i", "x", ":", " ", "o", "k", "\n">>

\* "(lmf1)[2020-01-01 00:00:00] {D} net up\n": no colon after the tag.
LineNoColon ==
  LinePrefix \o <<"{", "D", "}", " ", "n", "e", "t", " ", "u", "p", "\n">>

\* "(lmf1)[2020-01-01 00:00:00] {D} net:up\n": no space after the colon.
LineNoSpace ==
  LinePrefix \o <<"{", "D", "}", " ", "n", "e", "t", ":", "u", "p", "\n">>

\* "(lmf1)[2020-01-01 00:00:00] {D}  : up\n": a tag of one space, empty once
\* stripped.
LineBlankTag ==
  LinePrefix \o <<"{", "D", "}", " ", " ", ":", " ", "u", "p", "\n">>

\* The contents an input file may have: the lines `for line in input` yields.
FileContents ==
  { <<>>,
    <<LineBlankTag>>,
    <<LineIo, LineNet>>,
    <<LineNoColon, LineGps>>,
    <<LineNet, LineNoSpace, LineIo>> }

\* A path on the command line: a regular file that opens ("ok"), a regular
\* file whose open() raises IOError ("unreadable"), or no regular file
\* ("missing": os.path.isfile is false).
Files ==
  [status : {"ok"}, lines : FileContents]
    \cup [status : {"unreadable", "missing"}, lines : {<<>>}]

\* The most input paths of a run.
MaxFiles == 2

PathLists == UNION {[1..n -> Files] : n \in 0..MaxFiles}

\* -l values.
LevelArgs == {None, Some(<<"D">>)}

\* -t values, before arg.split(",").
TagArgs == {None, Some(<<"n", "e", "t">>), Some(<<"i", "o", ",", "n", "e", "t">>)}

\* -o values: "o.csv", "o.txt", ".csv", "d/.csv".
OutputArgs ==
  {None, Some(<<"o", ".", "c", "s", "v">>), Some(<<"o", ".", "t", "x", "t">>),
   Some(<<".", "c", "s", "v">>), Some(<<"d", "/", ".", "c", "s", "v">>)}

\* sys.argv[1:] as getopt sees it: malformed (bad), or the positional
\* arguments and the values of -o, -l, -t, -s, -h (-h alone or absent).
ArgvSet ==
  [bad : {FALSE}, args : PathLists, o : OutputArgs, l : LevelArgs, t : TagArgs,
   s : BOOLEAN, h : {FALSE}]
    \cup [bad : {FALSE}, args : PathLists, o : {None}, l : {None}, t : {None},
          s : {FALSE}, h : {TRUE}]
    \cup [bad : {TRUE}, args : {<<>>}, o : {None}, l : {None}, t : {None},
          s : {FALSE}, h : {FALSE}]

\* ---------------------------------------------------------------- state

VARIABLES
  argv,             \* the command line
  inputPaths,       \* main's locals
  outputFile,
  tagFilter,
  logLevel,
  spaceColumns,
  pc,               \* where the run is
  pathIdx,          \* main's `for path in inputPaths`
  lineIdx,          \* read_through_input_file's `for line in input`
  fileLogLines,     \* read_through_input_file's logLines
  logLines,         \* main's logLines
  LOG_LEVEL_WIDTH,  \* the module globals
  TAG_WIDTH,
  outputOpened,     \* whether open(outputFile, "w") has run
  output,           \* the records written, to the file or to standard output
  emitIdx,          \* main's `for line in logLines`
  fnArg,            \* the argument and the result of a function applied alone
  fnRet

vars ==
  <<argv, inputPaths, outputFile, tagFilter, logLevel, spaceColumns, pc, pathIdx,
    lineIdx, fileLogLines, logLines, LOG_LEVEL_WIDTH, TAG_WIDTH, outputOpened,
    output, emitIdx, fnArg, fnRet>>

\* The state main() starts in: module globals at 0, locals at their defaults.
MainStart ==
  /\ inputPaths = None
  /\ outputFile = None
  /\ tagFilter = None
  /\ logLevel = None
  /\ spaceColumns = FALSE
  /\ pathIdx = 1
  /\ lineIdx = 1
  /\ fileLogLines = <<>>
  /\ logLines = <<>>
  /\ LOG_LEVEL_WIDTH = 0
  /\ TAG_WIDTH = 0
  /\ outputOpened = FALSE
  /\ output = <<>>
  /\ emitIdx = 1

Init ==
  /\ argv \in ArgvSet
  /\ pc = "parse_args"
  /\ MainStart
  /\ fnArg = None
  /\ fnRet = None

\* ----------------------------------------------------------------- main

\* main, the argument check: getopt, the input paths, the options.
ParseArgs ==
  /\ pc = "parse_args"
  /\ IF argv.bad
     THEN /\ pc' = "exit1"
          /\ UNCHANGED <<inputPaths, outputFile, logLevel, tagFilter, spaceColumns>>
     ELSE /\ inputPaths' = Some(argv.args)
          /\ IF inputPaths' = None
             THEN /\ pc' = "exit2"
                  /\ UNCHANGED <<outputFile, logLevel, tagFilter, spaceColumns>>
             ELSE IF \E i \in 1..Len(argv.args) : argv.args[i].status = "missing"
             THEN /\ pc' = "exit3"
                  /\ UNCHANGED <<outputFile, logLevel, tagFilter, spaceColumns>>
             ELSE /\ outputFile' = argv.o
                  /\ logLevel' = argv.l
                  /\ tagFilter' = IF argv.t = None THEN None ELSE Some(Split(argv.t[1]))
                  /\ spaceColumns' = argv.s
                  /\ pc' = IF argv.h THEN "exit0" ELSE "next_path"
  /\ UNCHANGED <<argv, pathIdx, lineIdx, fileLogLines, logLines, LOG_LEVEL_WIDTH,
                 TAG_WIDTH, outputOpened, output, emitIdx, fnArg, fnRet>>

\* The path main's loop is at.
CurrentFile == inputPaths[1][pathIdx]

\* read_through_input_file, `with open(path) as input`: an IOError is caught
\* nowhere and ends the run.
OpenInput ==
  /\ pc = "next_path"
  /\ pathIdx <= Len(inputPaths[1])
  /\ IF CurrentFile.status = "ok"
     THEN /\ pc' = "read_lines"
          /\ lineIdx' = 1
          /\ fileLogLines' = <<>>
     ELSE /\ pc' = "io_error"
          /\ UNCHANGED <<lineIdx, fileLogLines>>
  /\ UNCHANGED <<argv, inputPaths, outputFile, tagFilter, logLevel, spaceColumns,
                 pathIdx, logLines, LOG_LEVEL_WIDTH, TAG_WIDTH, outputOpened, output,
                 emitIdx, fnArg, fnRet>>

\* A width update that keeps the last width seen, not the largest.
WidenToLast(width, text) == Len(text)

\* The width update of read_through_input_file.
WidenTo(width, text) == IF Len(text) > width THEN Len(text) ELSE width

\* read_through_input_file, one turn of `for line in input`.
ReadLine ==
  /\ pc = "read_lines"
  /\ lineIdx <= Len(CurrentFile.lines)
  /\ LET line == CurrentFile.lines[lineIdx]
         logLine == parse_log_line(line)
     IN  IF Match(line) /\ matches_filters(logLine, logLevel, tagFilter)
         THEN /\ fileLogLines' = Append(fileLogLines, logLine)
              /\ LOG_LEVEL_WIDTH' = WidenTo(LOG_LEVEL_WIDTH, logLine.logLevel)
              /\ TAG_WIDTH' = WidenTo(TAG_WIDTH, logLine.tag)
         ELSE UNCHANGED <<fileLogLines, LOG_LEVEL_WIDTH, TAG_WIDTH>>
  /\ lineIdx' = lineIdx + 1
  /\ UNCHANGED <<argv, inputPaths, outputFile, tagFilter, logLevel, spaceColumns, pc,
                 pathIdx, logLines, outputOpened, output, emitIdx, fnArg, fnRet>>

\* An accumulation that puts the newest file's entries first.
AccumulateNewestFirst(all, fromFile) == fromFile \o all

\* main's `logLines = list(logLines + read_through_input_file(...))`.
Accumulate(all, fromFile) == all \o fromFile

\* read_through_input_file returns at the end of the file; main adds its list.
CloseInput ==
  /\ pc = "read_lines"
  /\ lineIdx > Len(CurrentFile.lines)
  /\ logLines' = Accumulate(logLines, fileLogLines)
  /\ fileLogLines' = <<>>
  /\ pathIdx' = pathIdx + 1
  /\ pc' = "next_path"
  /\ UNCHANGED <<argv, inputPaths, outputFile, tagFilter, logLevel, spaceColumns,
                 lineIdx, LOG_LEVEL_WIDTH, TAG_WIDTH, outputOpened, output, emitIdx,
                 fnArg, fnRet>>

\* A loop that is left once the first path is read.
FirstPathRead == pathIdx > 1

\* Whether main's loop over the input paths has ended.
AllPathsRead == pathIdx > Len(inputPaths[1])

\* main, after the loop: `with open(outputFile, "w")` when -o was given.
OpenOutput ==
  /\ pc = "next_path"
  /\ AllPathsRead
  /\ outputOpened' = (outputFile # None)
  /\ emitIdx' = 1
  /\ pc' = "emit"
  /\ UNCHANGED <<argv, inputPaths, outputFile, tagFilter, logLevel, spaceColumns,
                 pathIdx, lineIdx, fileLogLines, logLines, LOG_LEVEL_WIDTH, TAG_WIDTH,
                 output, fnArg, fnRet>>

\* One turn of main's `for line in logLines: line.output_log_line(...)`.
Emit ==
  /\ pc = "emit"
  /\ emitIdx <= Len(logLines)
  /\ output' = Append(output, output_log_line(logLines[emitIdx], outputFile,
                                               spaceColumns, LOG_LEVEL_WIDTH, TAG_WIDTH))
  /\ emitIdx' = emitIdx + 1
  /\ UNCHANGED <<argv, inputPaths, outputFile, tagFilter, logLevel, spaceColumns, pc,
                 pathIdx, lineIdx, fileLogLines, logLines, LOG_LEVEL_WIDTH, TAG_WIDTH,
                 outputOpened, fnArg, fnRet>>

\* main returns.
Finish ==
  /\ pc = "emit"
  /\ emitIdx > Len(logLines)
  /\ pc' = "done"
  /\ UNCHANGED <<argv, inputPaths, outputFile, tagFilter, logLevel, spaceColumns,
                 pathIdx, lineIdx, fileLogLines, logLines, LOG_LEVEL_WIDTH, TAG_WIDTH,
                 outputOpened, output, emitIdx, fnArg, fnRet>>

Next ==
  \/ ParseArgs
  \/ OpenInput
  \/ ReadLine
  \/ CloseInput
  \/ OpenOutput
  \/ Emit
  \/ Finish

Spec == Init /\ [][Next]_vars

\* ------------------------------------------- the functions applied alone

\* The format token: "(lmf1)", "(lmf42)", "(lmf)", "(lmx1)", "(lmf1".
Heads ==
  { <<"(", "l", "m", "f", "1", ")">>,
    <<"(", "l", "m", "f", "4", "2", ")">>,
    <<"(", "l", "m", "f", ")">>,
    <<"(", "l", "m", "x", "1", ")">>,
    <<"(", "l", "m", "f", "1">> }

\* The timestamp: 19 characters, 18, a letter among them, 20.
Stamps ==
  { <<"[", "2", "0", "2", "0", "-", "0", "1", "-", "0", "1", " ", "0", "0", ":", "0", "0", ":", "0", "0", "]">>,
    <<"[", "2", "0", "2", "0", "-", "0", "1", "-", "0", "1", " ", "0", "0", ":", "0", "0", ":", "0", "]">>,
    <<"[", "2", "0", "2", "0", "-", "0", "1", "-", "0", "1", "T", "0", "0", ":", "0", "0", ":", "0", "0", "]">>,
    <<"[", "2", "0", "2", "0", "-", "0", "1", "-", "0", "1", " ", "0", "0", ":", "0", "0", ":", "0", "0", "0", "]">> }

\* The level with the space before it: " {D}", " {INFO}", " {d_2}", "{D}", " {}", " {D-1}".
Levels ==
  { <<" ", "{", "D", "}">>,
    <<" ", "{", "I", "N", "F", "O", "}">>,
    <<" ", "{", "d", "_", "2", "}">>,
    <<"{", "D", "}">>,
    <<" ", "{", "}">>,
    <<" ", "{", "D", "-", "1", "}">> }

\* The tag with the space before it: " net", " gps fix", "net", " ", "  ".
Tags ==
  { <<" ", "n", "e", "t">>,
    <<" ", "g", "p", "s", " ", "f", "i", "x">>,
    <<"n", "e", "t">>,
    <<" ">>,
    <<" ", " ">> }

\* What follows the tag: ": ", ":", nothing.
Seps ==
  { <<":", " ">>,
    <<":">>,
    <<>> }

\* The message: "", "up", "a,b", "x: y", "x:y", " pad  ".
Messages ==
  { <<>>,
    <<"u", "p">>,
    <<"a", ",", "b">>,
    <<"x", ":", " ", "y">>,
    <<"x", ":", "y">>,
    <<" ", "p", "a", "d", " ", " ">> }

\* The line ending: "\n", none (the last line of a file), "\r\n".
Eols ==
  { <<"\n">>,
    <<>>,
    <<"\r", "\n">> }

\* The lines the matcher and the parser are applied to.
LinePool ==
  {h \o st \o lv \o tg \o sp \o ms \o el :
     h \in Heads, st \in Stamps, lv \in Levels, tg \in Tags, sp \in Seps,
     ms \in Messages, el \in Eols}

\* Lines 166-167 applied to one line: first the shape check.
InitMatch ==
  /\ argv = None
  /\ MainStart
  /\ pc = "fn_match"
  /\ fnArg \in LinePool
  /\ fnRet = None

UnchangedMain ==
  UNCHANGED <<argv, inputPaths, outputFile, tagFilter, logLevel, spaceColumns,
              pathIdx, lineIdx, fileLogLines, logLines, LOG_LEVEL_WIDTH, TAG_WIDTH,
              outputOpened, output, emitIdx>>

\* `if LOG_LINE_PATTERN.match(line):`
MatchLine ==
  /\ pc = "fn_match"
  /\ fnRet' = [matched |-> Match(fnArg), scan |-> None, entry |-> None]
  /\ pc' = IF Match(fnArg) THEN "fn_parse" ELSE "fn_done"
  /\ UNCHANGED fnArg
  /\ UnchangedMain

\* `logLine = parse_log_line(line)`, with the positions its scans found.
ParseLine ==
  /\ pc = "fn_parse"
  /\ fnRet' = [fnRet EXCEPT !.scan = Some(ParseScan(fnArg)),
                            !.entry = Some(parse_log_line(fnArg))]
  /\ pc' = "fn_done"
  /\ UNCHANGED fnArg
  /\ UnchangedMain

NextMatch == MatchLine \/ ParseLine

SpecMatch == InitMatch /\ [][NextMatch]_vars

\* Levels of entries: "{D}", "{d}", "{INFO}".
FilterLevels ==
  { <<"{", "D", "}">>,
    <<"{", "d", "}">>,
    <<"{", "I", "N", "F", "O", "}">> }

\* Tags of entries, as written in the line: "net", "Net", "io", "net  ".
FilterTags ==
  { <<"n", "e", "t">>,
    <<"N", "e", "t">>,
    <<"i", "o">>,
    <<"n", "e", "t", " ", " ">> }

\* The entries matches_filters is applied to: parsed from accepted lines.
FilterEntries ==
  {parse_log_line(LinePrefix \o lv \o <<" ">> \o tg \o <<":", " ", "u", "p", "\n">>) :
     lv \in FilterLevels, tg \in FilterTags}

\* The logLevel argument: None, "D", "d", "INFO", "".
LevelFilters ==
  { None,
    Some(<<"D">>),
    Some(<<"d">>),
    Some(<<"I", "N", "F", "O">>),
    Some(<<>>) }

\* The strings a tag filter may hold: "net", "Net", "io".
FilterTagValues ==
  { <<"n", "e", "t">>,
    <<"N", "e", "t">>,
    <<"i", "o">> }

\* The most strings in a tag filter.
MaxTags == 2

\* The tagFilter argument: None, or a list (the empty list among them, which
\* main never builds, arg.split(",") holding at least one string).
TagFilters ==
  {None} \cup {Some(list) : list \in UNION {[1..n -> FilterTagValues] : n \in 0..MaxTags}}

InitFilter ==
  /\ argv = None
  /\ MainStart
  /\ pc = "fn_filter"
  /\ fnArg \in [entry : FilterEntries, logLevel : LevelFilters, tagFilter : TagFilters]
  /\ fnRet = None

\* `if logLine.matches_filters(logLevel, tagFilter):`
ApplyFilter ==
  /\ pc = "fn_filter"
  /\ fnRet' = Some(matches_filters(fnArg.entry, fnArg.logLevel, fnArg.tagFilter))
  /\ pc' = "fn_done"
  /\ UNCHANGED fnArg
  /\ UnchangedMain

NextFilter == ApplyFilter

SpecFilter == InitFilter /\ [][NextFilter]_vars

\* ------------------------------------------------- the line matcher (C4)

\* Whether the n characters of s after 1-based position from-1 all lie in set.
AllIn(s, from, n, set) ==
  /\ from + n - 1 <= Len(s)
  /\ \A i \in from..(from + n - 1) : s[i] \in set

\* Whether s holds exactly the text lit at 1-based position from.
HasAt(s, from, lit) ==
  /\ from + Len(lit) - 1 <= Len(s)
  /\ \A i \in 1..Len(lit) : s[from + i - 1] = lit[i]

\* Text that runs to the end of its line: no line break but a final one.
EndsItsLine(s, from) ==
  \A i \in from..Len(s) : s[i] = "\n" => i = Len(s)

\* The shape of a log line, written out: `(`, lmf and n digits, `)`, `[`, 19
\* timestamp characters, `]`, space, `{`, k word characters, `}`, space, m
\* characters that are no colon, `:`, after (the text required right after the
\* colon, possibly none), and then any text to the end of the line.
HasShape(line, after) ==
  /\ HasAt(line, 1, <<"(", "l", "m", "f">>)
  /\ \E n \in 1..Len(line) :
       /\ AllIn(line, 5, n, Digits)
       /\ HasAt(line, 5 + n, <<")", "[">>)
       /\ AllIn(line, 7 + n, TimestampLen, TimestampChars)
       /\ HasAt(line, 7 + n + TimestampLen, <<"]", " ", "{">>)
       /\ \E k \in 1..Len(line) :
            LET tagAt == 12 + n + TimestampLen + k
            IN  /\ AllIn(line, 10 + n + TimestampLen, k, WordChars)
                /\ HasAt(line, tagAt - 2, <<"}", " ">>)
                /\ \E m \in 1..Len(line) :
                     /\ AllIn(line, tagAt, m, {line[i] : i \in 1..Len(line)} \ {":"})
                     /\ HasAt(line, tagAt + m, <<":">> \o after)
                     /\ EndsItsLine(line, tagAt + m + 1 + Len(after))

\* Whether no colon follows the level's closing brace.
LacksTagColon(line) ==
  Find(line, "}", 0) = -1 \/ Find(line, ":", Find(line, "}", 0) + 1) = -1

\* C4 as stated: the matcher accepts a line if and only if it has the shape with
\* no character required right after the colon, and a line with no colon
\* after the tag is rejected and yields neither an entry nor an error.
MatcherAcceptsShapeAnyTextAfterColon ==
  (pc \in {"fn_parse", "fn_done"} /\ fnRet # None /\ "matched" \in DOMAIN fnRet)
    => /\ fnRet.matched <=> HasShape(fnArg, <<>>)
       /\ LacksTagColon(fnArg) => (~fnRet.matched /\ pc = "fn_done" /\ fnRet.entry = None)

\* C4 as amended: the matcher accepts a line if and only if it has the shape
\* with a space right after the colon and then any remaining text (possibly
\* empty), and a line with no colon after the tag is rejected and yields
\* neither an entry nor an error.
MatcherAcceptsShapeSpaceAfterColon ==
  (pc \in {"fn_parse", "fn_done"} /\ fnRet # None /\ "matched" \in DOMAIN fnRet)
    => /\ fnRet.matched <=> HasShape(fnArg, <<" ">>)
       /\ LacksTagColon(fnArg) => (~fnRet.matched /\ pc = "fn_done" /\ fnRet.entry = None)

\* A line accepted and parsed whose text after ": " is empty.
MatcherAcceptedEmptyMessage ==
  /\ pc = "fn_done"
  /\ fnRet # None
  /\ fnRet.matched
  /\ fnRet.entry # None
  /\ fnRet.entry[1].message = <<>>
  /\ fnRet.entry[1].tag # <<>>

\* -------------------------------------------------- the line parser (C9)

\* C9: for every line the matcher accepts, each of parse_log_line's seven
\* scans finds its character (none returns -1) and the positions found are
\* strictly increasing along the line.
ParserScansAlwaysFind ==
  (pc = "fn_done" /\ fnRet # None /\ "matched" \in DOMAIN fnRet /\ fnRet.matched)
    => /\ fnRet.scan # None
       /\ LET p == fnRet.scan[1]
          IN  /\ -1 \notin {p.lparen, p.rparen, p.lbrack, p.rbrack, p.lbrace, p.rbrace, p.colon}
              /\ p.lparen < p.rparen
              /\ p.rparen < p.lbrack
              /\ p.lbrack < p.rbrack
              /\ p.rbrack < p.lbrace
              /\ p.lbrace < p.rbrace
              /\ p.rbrace < p.colon

\* An accepted line, parsed, whose message holds a second colon.
ParserScannedAcceptedLine ==
  /\ pc = "fn_done"
  /\ fnRet # None
  /\ fnRet.matched
  /\ fnRet.scan # None
  /\ Contains(fnRet.entry[1].message, ":")

\* ------------------------------------------------ the filter (C2 and C7)

\* The strings a tag filter holds.
TagSet(filter) == {filter[1][i] : i \in 1..Len(filter[1])}

\* The level constraint as C2 and C7 state it.
LevelAdmits(arg) == arg.logLevel = None \/ arg.logLevel[1] = arg.entry.logLevel

\* C2: with the tag filter absent or a non-empty collection, matches_filters
\* is true if and only if (the level filter is absent or equals the entry's
\* level exactly) and (the tag filter is absent or holds the entry's tag
\* exactly).
FilterIsExactConjunction ==
  (pc = "fn_done" /\ fnRet # None /\ fnArg.tagFilter # Some(<<>>))
    => (fnRet[1] <=> /\ LevelAdmits(fnArg)
                     /\ (fnArg.tagFilter = None \/ fnArg.entry.tag \in TagSet(fnArg.tagFilter)))

\* An entry accepted with both filters present.
FilterAcceptedUnderBothFilters ==
  /\ pc = "fn_done"
  /\ fnRet = Some(TRUE)
  /\ fnArg.logLevel # None
  /\ fnArg.tagFilter # None
  /\ Len(fnArg.tagFilter[1]) = 2

InputLines == UNION {{c[i] : i \in 1..Len(c)} : c \in FileContents}

\* The shape check and the parse of each of them, worked out once.
ShapeCheck == [l \in InputLines |-> Match(l)]

Parsed == [l \in InputLines |-> parse_log_line(l)]

\* The lines of a file that pass the shape check and the filter, in file order.
AcceptedOf(lines) ==
  LET Accepts(l) == ShapeCheck[l] /\ matches_filters(Parsed[l], logLevel, tagFilter)
  IN  SelectSeq(lines, Accepts)

\* The accepted lines of the first n input files, file after file.
RECURSIVE AcceptedUpTo(_)
AcceptedUpTo(n) ==
  IF n = 0 THEN <<>> ELSE AcceptedUpTo(n - 1) \o AcceptedOf(inputPaths[1][n].lines)

RawValues(entries) == [i \in 1..Len(entries) |-> entries[i].rawValue]

\* C1: the entries held, and then the records emitted, are exactly the input
\* lines that pass the shape check and the filter, one record per line, in
\* the order of the path list and then of the lines in each file; nothing
\* accepted is dropped, duplicated, reordered or changed before it is emitted.
EmittedInInputOrder ==
  (pc \in {"next_path", "read_lines", "emit", "done", "io_error"})
    => LET all == AcceptedUpTo(Len(inputPaths[1]))
       IN  /\ RawValues(logLines) = AcceptedUpTo(pathIdx - 1)
           /\ \A i \in 1..Len(logLines) : logLines[i] = Parsed[logLines[i].rawValue]
           /\ pc = "read_lines"
                => RawValues(fileLogLines)
                     = AcceptedOf(SubSeq(inputPaths[1][pathIdx].lines, 1, lineIdx - 1))
           /\ Len(output) = (IF pc \in {"emit", "done"} THEN emitIdx - 1 ELSE 0)
           /\ Len(output) <= Len(all)
           /\ \A i \in 1..Len(output) :
                output[i] = output_log_line(Parsed[all[i]], outputFile,
                                            spaceColumns, LOG_LEVEL_WIDTH, TAG_WIDTH)
           /\ pc = "done" => Len(output) = Len(all)

\* A finished run over two files that each gave an entry, with a line left out.
EmittedFromTwoFiles ==
  /\ pc = "done"
  /\ Len(inputPaths[1]) = 2
  /\ AcceptedOf(inputPaths[1][1].lines) # <<>>
  /\ AcceptedOf(inputPaths[1][2].lines) # <<>>
  /\ inputPaths[1][1].lines # inputPaths[1][2].lines
  /\ Len(output) < Len(inputPaths[1][1].lines) + Len(inputPaths[1][2].lines)
  /\ Len(output) >= 3

\* ------------------------------------------------ the rendering mode (C3)

\* Whether text ends in suffix.
EndsWith(text, suffix) ==
  /\ Len(text) >= Len(suffix)
  /\ \A i \in 1..Len(suffix) : text[Len(text) - Len(suffix) + i] = suffix[i]

DotCsv == <<".", "c", "s", "v">>

\* Whether name ends in ".csv" and its last path component holds a character
\* other than a dot before that final dot.
HasCsvExtension(name) ==
  /\ EndsWith(name, DotCsv)
  /\ \E i \in 1..(Len(name) - Len(DotCsv)) :
       /\ name[i] # "."
       /\ \A j \in i..(Len(name) - Len(DotCsv)) : name[j] # "/"

\* The mode C3 gives a run, csvName saying whether the destination counts as CSV.
ModeChosen(csvName) ==
  IF csvName THEN "csv" ELSE IF spaceColumns THEN "aligned" ELSE "raw"

\* C3 as stated: every record of a run is written in one mode: CSV whenever the
\* destination's name ends in ".csv", whatever the alignment flag; aligned
\* when the flag is set and the destination is not CSV; raw otherwise.
ModeByNameSuffix ==
  \A i \in 1..Len(output) :
    output[i].mode = ModeChosen(outputFile # None /\ EndsWith(outputFile[1], DotCsv))

\* C3 as amended: every record of a run is written in one mode: CSV whenever
\* the destination is a file whose name ends in ".csv" with, in its last path
\* component, a character other than a dot before that final dot (the
\* extension os.path.splitext gives), whatever the alignment flag; aligned
\* when the flag is set and the destination is not CSV; raw otherwise.
ModeByNameExtension ==
  \A i \in 1..Len(output) :
    /\ output[i].mode = ModeChosen(outputFile # None /\ HasCsvExtension(outputFile[1]))
    /\ output[i].text =
         CASE output[i].mode = "csv" -> to_csv_string(logLines[i])
           [] output[i].mode = "aligned" ->
                to_spaced_string(logLines[i], LOG_LEVEL_WIDTH, TAG_WIDTH)
           [] OTHER -> Strip(logLines[i].rawValue)

\* A CSV record written with the alignment flag set.
CsvWrittenDespiteFlag ==
  /\ spaceColumns
  /\ \E i \in 1..Len(output) : output[i].mode = "csv"

\* ---------------------------------------------- output after input (C5)

\* C5: the output is not opened and no record is written until every input
\* path has been opened and read to its end, so a run that an unopenable
\* path ends has written nothing.
NoOutputUntilAllInputsRead ==
  /\ (outputOpened \/ output # <<>>)
       => /\ inputPaths # None
          /\ pathIdx = Len(inputPaths[1]) + 1
          /\ \A i \in 1..Len(inputPaths[1]) : inputPaths[1][i].status = "ok"
  /\ pc \in {"io_error", "exit3"} => (~outputOpened /\ output = <<>>)

\* The second path failed to open after the first one gave entries, with -o set.
SecondPathFailedAfterEntries ==
  /\ pc = "io_error"
  /\ pathIdx = 2
  /\ logLines # <<>>
  /\ outputFile # None

\* ----------------------------------------------- no input paths (C6)

\* C6: a run started with no input path never completes normally.
EmptyPathListIsAnError ==
  (~argv.bad /\ argv.args = <<>>) => pc # "done"

\* ------------------------------------------------- the widths (C8, C10)

LevelWidthOf(entries) ==
  IF entries = <<>> THEN 0 ELSE Max({Len(entries[i].logLevel) : i \in 1..Len(entries)})

TagWidthOf(entries) ==
  IF entries = <<>> THEN 0 ELSE Max({Len(entries[i].tag) : i \in 1..Len(entries)})

\* The widths are the largest level and tag lengths accepted so far in the run.
WidthsAreMaxima ==
  /\ LOG_LEVEL_WIDTH = LevelWidthOf(logLines \o fileLogLines)
  /\ TAG_WIDTH = TagWidthOf(logLines \o fileLogLines)

\* No step lowers a width, and a step that accepts no entry (a rejected line,
\* the move to the next file) leaves both as they are.
WidthsStep ==
  /\ LOG_LEVEL_WIDTH' >= LOG_LEVEL_WIDTH
  /\ TAG_WIDTH' >= TAG_WIDTH
  /\ Len(logLines' \o fileLogLines') = Len(logLines \o fileLogLines)
       => (LOG_LEVEL_WIDTH' = LOG_LEVEL_WIDTH /\ TAG_WIDTH' = TAG_WIDTH)

\* C8: at every point of a run the level width and the tag width are the
\* largest lengths among the entries accepted so far over all files (0 with
\* none); they never decrease, are not reset between files, and are left
\* unchanged by a line that fails the shape check or the filter.
WidthsTrackMaxima == []WidthsAreMaxima /\ [][WidthsStep]_vars

\* In the second file, an entry whose level is shorter than the width the first
\* file left.
ShorterEntryInSecondFile ==
  /\ pc = "read_lines"
  /\ pathIdx = 2
  /\ logLines # <<>>
  /\ fileLogLines # <<>>
  /\ Len(fileLogLines[Len(fileLogLines)].logLevel) < LevelWidthOf(logLines)
  /\ LOG_LEVEL_WIDTH = LevelWidthOf(logLines)

\* C10: in aligned mode the level field (between the braces) of every record
\* is the entry's level followed by spaces up to the largest level length of
\* the run's entries, and the tag field (between the space after the closing
\* brace and the colon) is the tag followed by spaces up to the largest tag
\* length; neither is truncated or longer than that width.
AlignedFieldsHaveFinalWidths ==
  \A i \in 1..Len(output) :
    output[i].mode = "aligned"
      => LET text == output[i].text
             lbrace == Find(text, "{", Find(text, "]", 0))
             rbrace == Find(text, "}", lbrace + 1)
             colon == Find(text, ":", rbrace + 1)
             levelField == Slice(text, lbrace + 1, rbrace)
             tagField == Slice(text, rbrace + 2, colon)
             level == logLines[i].logLevel
             tag == logLines[i].tag
         IN  /\ Len(levelField) = LevelWidthOf(logLines)
             /\ Len(tagField) = TagWidthOf(logLines)
             /\ levelField = level \o Spaces(LevelWidthOf(logLines) - Len(level))
             /\ tagField = tag \o Spaces(TagWidthOf(logLines) - Len(tag))

\* A finished aligned run over two files in which a level and a tag were padded.
AlignedRecordWasPadded ==
  /\ pc = "done"
  /\ Len(inputPaths[1]) = 2
  /\ \E i \in 1..Len(output) :
       /\ output[i].mode = "aligned"
       /\ Len(logLines[i].logLevel) < LOG_LEVEL_WIDTH
       /\ Len(logLines[i].tag) < TAG_WIDTH

====
